---- MODULE Spec2Model ----
(***************************************************************************)
(* Model of fourierflow/builders/kolmogorov.py: generate_kolmogorov and    *)
(* the two projection functions downsample_vorticity / downsample_velocity.*)
(*                                                                         *)
(* Arrays are modelled by their shape and by their provenance: the value   *)
(* of the simulation state they were computed from (src), the velocity     *)
(* component they hold (comp, 0 for a scalar field) and the sequence of    *)
(* library operations applied to it (ops).  The numerical kernels of       *)
(* jax / jax_cfd are not part of this repository; only their effect on     *)
(* shapes and the order in which the repository's code applies them are    *)
(* modelled.                                                               *)
(***************************************************************************)
EXTENDS Integers, Sequences, FiniteSets, TLC

(* ------------------------------ bounds --------------------------------- *)
MaxOut == 2        \* longest out_sizes list
MaxInner == 2      \* largest inner_steps
MaxOuter == 2      \* largest outer_steps
MaxWarmup == 1     \* largest warmup_steps
ValMod == 5        \* number of distinct abstract state values
MaxN == 6        \* largest number n of solutions asked of navier_stokes
MaxB == 4        \* largest batch size b given to navier_stokes
MaxTime == 5     \* longest time axis of a stored dataset
MaxSamples == 2  \* largest number of samples of a stored dataset
MaxK == 2        \* largest time stride k of a dataset object
MaxL == 2        \* largest unroll_length of a KolmogorovJAXDataset
MaxDss == 3      \* largest number of datasets of a KolmogorovMultiTorchDataset
MaxBatch == 3    \* largest batch_size of a KolmogorovMultiTorchDataset
MaxCalls == 7    \* largest number of __getitem__ calls followed

GridSizes == {2, 4}          \* points per axis of a grid
Ndims == {2, 3}              \* sim_grid.ndim
Strides == {1, 2}            \* the 'k' entry of an out_sizes item
Methods == {"pseudo_spectral", "projection", "unknown"}
DownsampleFns == {"downsample_vorticity", "downsample_velocity"}
StepFns == {"inc", "dbl"}    \* deterministic step functions on state values
Seeds == {0}

KEYS == <<"vx", "vy", "vz">>

VARIABLES
    sim_grid, out_sizes, method, step_fn, downsample_fn, seed, initial_field,
    inner_steps, outer_steps, warmup_steps, out_vorticity,
    velocity_solve, out_grids, state, pc, i, j, trajs, ret, retKind, raised,
    nsteps      \* number of applications of step_fn so far

\* The arguments read by lines 350-385, those read by lines 387-389 and
\* those read by lines 393-405.
\* commands/generate.py, navier_stokes: the options n, b and force, the
\* cursor c, the batch number j, and for each of the datasets 'a', 'u', 'f'
\* and 'mu' the number of times each row was assigned.
VARIABLES ns_pc, ns_n, ns_b, ns_force, ns_c, ns_j, ns_a, ns_u, ns_f, ns_mu

\* Rows a batch assignment can address.
Rows == 0..(MaxN + MaxB - 1)

\* navier_stokes has not been invoked.
NsIdle ==
    /\ ns_pc = "idle"
    /\ ns_n = 0
    /\ ns_b = 0
    /\ ns_force = "li"
    /\ ns_c = 0
    /\ ns_j = 0
    /\ ns_a = [r \in Rows |-> 0]
    /\ ns_u = [r \in Rows |-> 0]
    /\ ns_f = [r \in Rows |-> 0]
    /\ ns_mu = [r \in Rows |-> 0]

\* builders/kolmogorov.py, KolmogorovTorchDataset and KolmogorovJAXDataset:
\* the class, len(ds.time), the fields B, k, L and T, and for the last and
\* the previous __getitem__ call the index, the decoded b and t and the time
\* indices read into the inputs and the outputs.
VARIABLES ds_pc, ds_kind, ds_len, ds_B, ds_k, ds_L, ds_T, ds_call, ds_prev

dsVars == <<ds_pc, ds_kind, ds_len, ds_B, ds_k, ds_L, ds_T, ds_call, ds_prev>>

NoCall == [idx |-> -1, b |-> -1, t |-> -1, ins |-> << >>, outs |-> << >>]

\* No dataset object has been constructed.
DsIdle ==
    /\ ds_pc = "idle"
    /\ ds_kind = "torch"
    /\ ds_len = 0
    /\ ds_B = 0
    /\ ds_k = 0
    /\ ds_L = 0
    /\ ds_T = 0
    /\ ds_call = NoCall
    /\ ds_prev = NoCall

\* builders/kolmogorov.py, KolmogorovMultiTorchDataset: len(dss),
\* len(dss[0].time), the fields B, k, T, batch_size, counter and ds_index,
\* the last __getitem__ call and the list of datasets read so far.
VARIABLES mt_pc, mt_dss, mt_len, mt_B, mt_k, mt_T, batch_size, counter,
          ds_index, mt_last, mt_reads

mtVars == <<mt_pc, mt_dss, mt_len, mt_B, mt_k, mt_T, batch_size, counter,
            ds_index, mt_last, mt_reads>>

NoRead == [idx |-> -1, b |-> -1, t |-> -1, ds |-> -1]

\* No KolmogorovMultiTorchDataset has been constructed.
MtIdle ==
    /\ mt_pc = "idle"
    /\ mt_dss = 0
    /\ mt_len = 0
    /\ mt_B = 0
    /\ mt_k = 0
    /\ mt_T = 0
    /\ batch_size = 0
    /\ counter = 0
    /\ ds_index = 0
    /\ mt_last = NoRead
    /\ mt_reads = << >>

nsVars == <<ns_pc, ns_n, ns_b, ns_force, ns_c, ns_j, ns_a, ns_u, ns_f, ns_mu>>
otherVars == <<nsVars, dsVars, mtVars>>

args == <<sim_grid, out_sizes, method, downsample_fn, seed, initial_field,
          out_vorticity>>
stepArgs == <<step_fn, inner_steps>>
rolloutArgs == <<outer_steps, warmup_steps>>
vars == <<sim_grid, out_sizes, method, step_fn, downsample_fn, seed,
          initial_field, inner_steps, outer_steps, warmup_steps, out_vorticity,
          velocity_solve, out_grids, state, pc, i, j, trajs, ret, retKind,
          raised, nsteps, otherVars>>

(* ------------------------------ helpers -------------------------------- *)
Range(s) == {s[n] : n \in 1..Len(s)}

SeqsUpTo(S, n) == UNION {[1..m -> S] : m \in 1..n}

\* jax_cfd Grid(shape=..., domain=...): only the shape matters here.
Grid(shape) == [shape |-> shape]

ndim(grid) == Len(grid.shape)

\* jnp.fft.rfftn(a, axes=(0, 1)): the last transformed axis keeps n \div 2 + 1
\* coefficients.
rfftn_shape(shape) ==
    [n \in 1..Len(shape) |-> IF n = 2 THEN shape[n] \div 2 + 1 ELSE shape[n]]

\* jnp.fft.irfftn(a, axes=(0, 1)) without s: the last transformed axis gets
\* 2 * (m - 1) points.
irfftn_shape(shape) ==
    [n \in 1..Len(shape) |-> IF n = 2 THEN 2 * (shape[n] - 1) ELSE shape[n]]

Array(shape, src, comp, ops) ==
    [shape |-> shape, src |-> src, comp |-> comp, ops |-> ops]

\* The pluggable step function: a deterministic map on state values that
\* keeps representation and shape.
step(fn, s) ==
    [s EXCEPT !.val = IF fn = "inc" THEN (s.val + 1) % ValMod
                      ELSE (2 * s.val + 1) % ValMod]

NoState == [rep |-> "none", shape |-> <<>>, val |-> 0]

Restrict(f, S) == [x \in S |-> f[x]]

(* --------------------------- output grids ------------------------------ *)
\* Variant of OutKey: output grids keyed by size alone.
OutKeySizeOnly(o) == <<o.size, 1>>

\* Lines 355-358: out_grids[(o['size'], o['k'])] = Grid([o['size']] * ndim).
OutKey(o) == <<o.size, o.k>>

OutGrids(grid, sizes) ==
    [key \in {OutKey(sizes[n]) : n \in 1..Len(sizes)} |->
        Grid([n \in 1..ndim(grid) |-> key[1]])]

(* ---------------------------- projections ------------------------------ *)
\* fourierflow.utils.downsample_vorticity_hat(vorticity_hat, velocity_solve,
\* sim_grid, out_grid): truncates the spectrum to out_grid and returns vx, vy
\* and vorticity on out_grid.
downsample_vorticity_hat(vorticity_hat, grid, out_grid) ==
    [vx |-> Array(out_grid.shape, vorticity_hat.val, 1,
                  <<"truncate", "velocity_solve", "irfftn">>),
     vy |-> Array(out_grid.shape, vorticity_hat.val, 2,
                  <<"truncate", "velocity_solve", "irfftn">>),
     vorticity |-> Array(out_grid.shape, vorticity_hat.val, 0,
                         <<"truncate", "irfftn">>)]

\* Lines 415-421: the native-resolution branch of downsample_vorticity.
VorticityNative(vorticity_hat) ==
    [vx |-> Array(irfftn_shape(vorticity_hat.shape), vorticity_hat.val, 1,
                  <<"velocity_solve", "irfftn">>),
     vy |-> Array(irfftn_shape(vorticity_hat.shape), vorticity_hat.val, 2,
                  <<"velocity_solve", "irfftn">>),
     vorticity |-> Array(irfftn_shape(vorticity_hat.shape), vorticity_hat.val,
                         0, <<"irfftn">>)]

\* Variant of VorticityRecord: the spectrum is truncated at every size,
\* the native one included.
VorticityRecordAlwaysTruncate(grid, out_grid, out_vort, vorticity_hat, key) ==
    LET out == downsample_vorticity_hat(vorticity_hat, grid, out_grid)
    IN  IF ~out_vort THEN Restrict(out, DOMAIN out \ {"vorticity"}) ELSE out

\* Lines 414-426: the record of one key.
VorticityRecord(grid, out_grid, out_vort, vorticity_hat, key) ==
    LET size == key[1]
        out == IF size = grid.shape[1]
               THEN VorticityNative(vorticity_hat)
               ELSE downsample_vorticity_hat(vorticity_hat, grid, out_grid)
    IN  IF ~out_vort THEN Restrict(out, DOMAIN out \ {"vorticity"}) ELSE out

\* Lines 411-431.
downsample_vorticity(grid, grids, vsolve, out_vort, vorticity_hat) ==
    [key \in DOMAIN grids |->
        VorticityRecord(grid, grids[key], out_vort, vorticity_hat, key)]

\* jax_cfd.base.resize.downsample_staggered_velocity: every axis is reduced
\* by the factor destination step / source step taken along axis 0.
downsample_staggered_velocity(grid, out_grid, u) ==
    LET factor == grid.shape[1] \div out_grid.shape[1]
    IN  [shape |-> [n \in 1..Len(u.shape) |-> u.shape[n] \div factor],
         ops |-> <<"downsample_staggered_velocity">>]

\* Variant of VelocityRecord: the curl is taken whatever the dimension.
VelocityRecordAlwaysCurl(grid, out_grid, out_vort, u, key) ==
    LET size == key[1]
        u_new == IF size = grid.shape[1] THEN [shape |-> u.shape, ops |-> <<>>]
                 ELSE downsample_staggered_velocity(grid, out_grid, u)
        names == {KEYS[n] : n \in 1..ndim(grid)}
                     \cup (IF out_vort THEN {"vorticity"} ELSE {})
        comp(name) == CHOOSE n \in 1..3 : KEYS[n] = name
    IN  [name \in names |->
            IF name = "vorticity"
            THEN Array(u_new.shape, u.val, 0, Append(u_new.ops, "curl_2d"))
            ELSE Array(u_new.shape, u.val, comp(name), u_new.ops)]

\* Lines 437-450: the record of one key.
VelocityRecord(grid, out_grid, out_vort, u, key) ==
    LET size == key[1]
        u_new == IF size = grid.shape[1] THEN [shape |-> u.shape, ops |-> <<>>]
                 ELSE downsample_staggered_velocity(grid, out_grid, u)
        names == {KEYS[n] : n \in 1..ndim(grid)}
                     \cup (IF ndim(grid) = 2 /\ out_vort
                           THEN {"vorticity"} ELSE {})
        comp(name) == CHOOSE n \in 1..3 : KEYS[n] = name
    IN  [name \in names |->
            IF name = "vorticity"
            THEN Array(u_new.shape, u.val, 0, Append(u_new.ops, "curl_2d"))
            ELSE Array(u_new.shape, u.val, comp(name), u_new.ops)]

\* Lines 434-455.
downsample_velocity(grid, grids, vsolve, out_vort, u) ==
    [key \in DOMAIN grids |-> VelocityRecord(grid, grids[key], out_vort, u, key)]

\* The partial application of lines 360-361.
downsample(fn, grid, grids, vsolve, out_vort, s) ==
    IF fn = "downsample_vorticity"
    THEN downsample_vorticity(grid, grids, vsolve, out_vort, s)
    ELSE downsample_velocity(grid, grids, vsolve, out_vort, s)

\* A projection raises when its loop body runs on a state it cannot read:
\* velocity_solve is None outside 2D (line 353, called at 416), a staggered
\* velocity has no spectrum and a spectral array has no components u[i].data.
DownsampleRaises(fn, grids, vsolve, s) ==
    /\ DOMAIN grids # {}
    /\ \/ fn = "downsample_vorticity" /\ (~vsolve \/ s.rep # "spectral")
       \/ fn = "downsample_velocity" /\ s.rep # "velocity"

(* ------------------------- generate_kolmogorov ------------------------- *)
\* The arguments of a call are drawn where the function first reads them:
\* those of lines 350-385 in Init, step_fn and inner_steps at lines 387-389,
\* warmup_steps and outer_steps at lines 393-403.  Until then the variable
\* of an argument holds "unread" or 0.
\* filtered_velocity_field(seed, sim_grid, ...): one array per axis on
\* sim_grid, determined by the seed.
filtered_velocity_field(sd, grid) ==
    [rep |-> "velocity", shape |-> grid.shape, val |-> sd % ValMod]

\* Line 372: curl_2d(v0).data, a scalar field on the grid of v0.
curl_2d(v) == [shape |-> v.shape, val |-> v.val]

\* Line 383: state = jnp.fft.rfftn(vorticity0, axes=(0, 1)).
rfftn(vorticity0) ==
    [rep |-> "spectral", shape |-> rfftn_shape(vorticity0.shape),
     val |-> vorticity0.val]

NoField == [given |-> FALSE, n |-> 0]

\* A supplied initial_field holds the first n of the KEYS variables.
FieldCounts == {2, 3}

SimGrids == {Grid(sh) : sh \in UNION {[1..d -> GridSizes] : d \in Ndims}}

OutSpecs(grid) ==
    SeqsUpTo([size : {n \in GridSizes : n <= grid.shape[1]}, k : Strides],
             MaxOut)

Init ==
    /\ sim_grid \in SimGrids
    /\ out_sizes \in OutSpecs(sim_grid)
    /\ method \in Methods
    /\ step_fn = "unread"
    /\ downsample_fn \in DownsampleFns
    /\ seed \in Seeds
    /\ initial_field \in {NoField} \cup [given : {TRUE}, n : FieldCounts]
    /\ inner_steps = 0
    /\ outer_steps = 0
    /\ warmup_steps = 0
    /\ out_vorticity \in BOOLEAN
    /\ velocity_solve = FALSE
    /\ out_grids = << >>
    /\ state = NoState
    /\ pc = "start"
    /\ i = 0
    /\ j = 0
    /\ trajs = << >>
    /\ ret = << >>
    /\ retKind = "pending"
    /\ raised = ""
    /\ nsteps = 0
    /\ NsIdle
    /\ DsIdle
    /\ MtIdle

\* Variant of Setup: a grid that is not 2D is rejected.
SetupRejectsNon2D ==
    /\ pc = "start"
    /\ IF ndim(sim_grid) # 2
       THEN /\ pc' = "raised"
            /\ raised' = "InvalidGridError"
            /\ UNCHANGED <<otherVars, nsteps, args, stepArgs, rolloutArgs,
                           velocity_solve, out_grids, state, i, j, trajs, ret,
                           retKind>>
       ELSE /\ velocity_solve' = TRUE
            /\ out_grids' = OutGrids(sim_grid, out_sizes)
            /\ pc' = "initial"
            /\ UNCHANGED <<otherVars, nsteps, args, stepArgs, rolloutArgs,
                           state, i, j, trajs, ret, retKind, raised>>

\* Lines 350-361: velocity_solve, out_grids and the downsample partial.
Setup ==
    /\ pc = "start"
    /\ velocity_solve' = (ndim(sim_grid) = 2)
    /\ out_grids' = OutGrids(sim_grid, out_sizes)
    /\ pc' = "initial"
    /\ UNCHANGED <<otherVars, nsteps, args, stepArgs, rolloutArgs, state, i,
                   j, trajs, ret, retKind, raised>>

\* An exception leaves the function.
Raise(exc) ==
    /\ pc' = "raised"
    /\ raised' = exc
    /\ UNCHANGED <<otherVars, nsteps, args, stepArgs, rolloutArgs,
                   velocity_solve, out_grids, state, i, j, trajs, ret,
                   retKind>>

\* Lines 387-389: step_fn and inner_steps are read once the initial state is
\* there.
BuildOuterStep(s) ==
    /\ state' = s
    /\ \E fn \in StepFns : step_fn' = fn
    /\ \E n \in 1..MaxInner : inner_steps' = n
    /\ pc' = "branch"
    /\ UNCHANGED <<otherVars, nsteps, args, rolloutArgs, velocity_solve,
                   out_grids, i, j, trajs, ret, retKind, raised>>

\* Variant of InitialRandom: a method outside the two known modes is refused.
InitialRandomValidated ==
    /\ pc = "initial"
    /\ ~initial_field.given
    /\ LET v0 == filtered_velocity_field(seed, sim_grid)
       IN  IF method \notin {"pseudo_spectral", "projection"}
           THEN Raise("UnsupportedMethodError")
           ELSE IF method = "pseudo_spectral"
                THEN IF ndim(sim_grid) # 2
                     THEN Raise("ValueError")
                     ELSE BuildOuterStep(rfftn(curl_2d(v0)))
                ELSE BuildOuterStep(v0)

\* Variant of InitialRandom: the initial state is the velocity field whatever
\* the method.
InitialRandomAlwaysVelocity ==
    /\ pc = "initial"
    /\ ~initial_field.given
    /\ LET v0 == filtered_velocity_field(seed, sim_grid)
       IN  BuildOuterStep(v0)

\* Lines 363-372 and 382-389: random initial velocity; curl_2d accepts only
\* two components.
InitialRandom ==
    /\ pc = "initial"
    /\ ~initial_field.given
    /\ LET v0 == filtered_velocity_field(seed, sim_grid)
       IN  IF method = "pseudo_spectral"
           THEN IF ndim(sim_grid) # 2
                THEN Raise("ValueError")
                ELSE BuildOuterStep(rfftn(curl_2d(v0)))
           ELSE BuildOuterStep(v0)

\* Lines 373-380: a supplied field is read per axis and handed to
\* wrap_velocities, which line 26 sets to None.
InitialFromField ==
    /\ pc = "initial"
    /\ initial_field.given
    /\ IF initial_field.n < ndim(sim_grid)
       THEN Raise("KeyError")
       ELSE Raise("TypeError")

Project(s) ==
    downsample(downsample_fn, sim_grid, out_grids, velocity_solve,
               out_vorticity, s)

ProjectRaises(s) ==
    DownsampleRaises(downsample_fn, out_grids, velocity_solve, s)

\* Lines 393 and 403 read warmup_steps (w) and outer_steps (o); the branch
\* they select is entered.
Branch(target, kind, w, o) ==
    /\ pc = "branch"
    /\ warmup_steps' = w
    /\ outer_steps' = o
    /\ pc' = target
    /\ retKind' = kind
    /\ i' = 0
    /\ j' = 0
    /\ UNCHANGED <<otherVars, nsteps, args, stepArgs, velocity_solve,
                   out_grids, state, trajs, ret, raised>>

\* Variant of StartWarmup: the warmup rollout loses its first macro-step.
StartWarmupShort ==
    /\ pc = "branch"
    /\ \E w \in 0..MaxWarmup, o \in 0..MaxOuter :
          /\ w > 0
          /\ warmup_steps' = w
          /\ outer_steps' = o
    /\ pc' = "warmup"
    /\ i' = 1
    /\ j' = 0
    /\ UNCHANGED <<otherVars, nsteps, args, stepArgs, velocity_solve,
                   out_grids, state, trajs, ret, retKind, raised>>

\* Lines 393-397: the warmup rollout is set up when warmup_steps > 0.
StartWarmup ==
    \E w \in 0..MaxWarmup, o \in 0..MaxOuter :
        /\ w > 0
        /\ Branch("warmup", "pending", w, o)

\* Variant of StartRecord: the test of outer_steps admits 0.
StartRecordNonNegative ==
    \E w \in 0..MaxWarmup, o \in 0..MaxOuter :
        /\ ~(w > 0)
        /\ o >= 0
        /\ Branch("record", "pending", w, o)

\* Lines 403-405: the recorded rollout is set up when the warmup branch was
\* not taken and outer_steps > 0.
StartRecord ==
    \E w \in 0..MaxWarmup, o \in 0..MaxOuter :
        /\ ~(w > 0)
        /\ o > 0
        /\ Branch("record", "pending", w, o)

\* Falling off the end of the function: neither branch is taken.
ReturnNone ==
    \E w \in 0..MaxWarmup, o \in 0..MaxOuter :
        /\ ~(w > 0)
        /\ ~(o > 0)
        /\ Branch("done", "none", w, o)

Steps == IF pc = "warmup" THEN warmup_steps ELSE outer_steps

\* repeated(step_fn, inner_steps) (line 389): one application of step_fn
\* inside the current macro-step.
StepOnce ==
    /\ pc \in {"warmup", "record"}
    /\ i < Steps
    /\ j < inner_steps
    /\ state' = step(step_fn, state)
    /\ nsteps' = nsteps + 1
    /\ j' = j + 1
    /\ UNCHANGED <<otherVars, args, stepArgs, rolloutArgs, velocity_solve,
                   out_grids, pc, i, trajs, ret, retKind, raised>>

\* trajectory(outer_step_fn, warmup_steps, ignore) (lines 394-396): the
\* post-processing of a warmup macro-step keeps nothing.
ProjectIgnore ==
    /\ pc = "warmup"
    /\ i < Steps
    /\ j = inner_steps
    /\ i' = i + 1
    /\ j' = 0
    /\ UNCHANGED <<otherVars, nsteps, args, stepArgs, rolloutArgs,
                   velocity_solve, out_grids, state, pc, trajs, ret, retKind,
                   raised>>

\* Variant of ProjectRecord: the next macro-step is not started afresh, so
\* the same state is projected again.
ProjectRecordStale ==
    /\ pc = "record"
    /\ i < Steps
    /\ j = inner_steps
    /\ IF ProjectRaises(state)
       THEN Raise("TypeError")
       ELSE /\ trajs' = Append(trajs, Project(state))
            /\ i' = i + 1
            /\ UNCHANGED <<otherVars, nsteps, args, stepArgs, rolloutArgs,
                           velocity_solve, out_grids, state, pc, j, ret,
                           retKind, raised>>

\* Variant of ProjectRecord: a key of stride k receives a record only at
\* every k-th recorded step.
ProjectRecordStrided ==
    /\ pc = "record"
    /\ i < Steps
    /\ j = inner_steps
    /\ IF ProjectRaises(state)
       THEN Raise("TypeError")
       ELSE /\ trajs' = Append(trajs,
                    Restrict(Project(state),
                        {key \in DOMAIN out_grids : (i + 1) % key[2] = 0}))
            /\ i' = i + 1
            /\ j' = 0
            /\ UNCHANGED <<otherVars, nsteps, args, stepArgs, rolloutArgs,
                           velocity_solve, out_grids, state, pc, ret, retKind,
                           raised>>

\* Variant of ProjectRecord: the projection is taken as soon as one step of
\* the macro-step has run.
ProjectRecordEager ==
    /\ pc = "record"
    /\ i < Steps
    /\ j > 0
    /\ IF ProjectRaises(state)
       THEN Raise("TypeError")
       ELSE /\ trajs' = Append(trajs, Project(state))
            /\ i' = i + 1
            /\ j' = 0
            /\ UNCHANGED <<otherVars, nsteps, args, stepArgs, rolloutArgs,
                           velocity_solve, out_grids, state, pc, ret, retKind,
                           raised>>

\* trajectory(outer_step_fn, outer_steps, downsample) (line 405): the
\* post-processing of a recorded macro-step appends downsample(state).
ProjectRecord ==
    /\ pc = "record"
    /\ i < Steps
    /\ j = inner_steps
    /\ IF ProjectRaises(state)
       THEN Raise("TypeError")
       ELSE /\ trajs' = Append(trajs, Project(state))
            /\ i' = i + 1
            /\ j' = 0
            /\ UNCHANGED <<otherVars, nsteps, args, stepArgs, rolloutArgs,
                           velocity_solve, out_grids, state, pc, ret, retKind,
                           raised>>

\* Variant of WarmupReturn: the warmup result becomes the working state of a
\* recorded rollout instead of being returned.
WarmupThenRecord ==
    /\ pc = "warmup"
    /\ i = Steps
    /\ pc' = IF outer_steps > 0 THEN "record" ELSE "done"
    /\ retKind' = IF outer_steps > 0 THEN retKind ELSE "none"
    /\ i' = 0
    /\ j' = 0
    /\ UNCHANGED <<otherVars, nsteps, args, stepArgs, rolloutArgs,
                   velocity_solve, out_grids, state, trajs, ret, raised>>

\* Lines 398-401: after the warmup rollout the final state is projected once
\* and returned.
WarmupReturn ==
    /\ pc = "warmup"
    /\ i = Steps
    /\ IF ProjectRaises(state)
       THEN Raise("TypeError")
       ELSE /\ ret' = <<Project(state)>>
            /\ retKind' = "outs"
            /\ pc' = "done"
            /\ UNCHANGED <<otherVars, nsteps, args, stepArgs, rolloutArgs,
                           velocity_solve, out_grids, state, i, j, trajs,
                           raised>>

\* Lines 406-408: the recorded rollout returns the collected projections.
RecordReturn ==
    /\ pc = "record"
    /\ i = Steps
    /\ ret' = trajs
    /\ retKind' = "trajs"
    /\ pc' = "done"
    /\ UNCHANGED <<otherVars, nsteps, args, stepArgs, rolloutArgs,
                   velocity_solve, out_grids, state, i, j, trajs, raised>>

Next ==
    \/ Setup
    \/ InitialRandom
    \/ InitialFromField
    \/ StartWarmup
    \/ StartRecord
    \/ ReturnNone
    \/ StepOnce
    \/ ProjectIgnore
    \/ ProjectRecord
    \/ WarmupReturn
    \/ RecordReturn

Spec == Init /\ [][Next]_vars

TypeOK ==
    /\ pc \in {"start", "initial", "branch", "warmup", "record", "done",
               "raised"}
    /\ retKind \in {"pending", "none", "outs", "trajs"}
    /\ i \in 0..(MaxOuter + MaxWarmup)
    /\ j \in 0..MaxInner

(* ------------------------- reference definitions ----------------------- *)
RECURSIVE Iterate(_, _, _)
\* fn applied n times to s.
Iterate(fn, n, s) == IF n = 0 THEN s ELSE Iterate(fn, n - 1, step(fn, s))

\* The initial state of lines 363-385 for a call without initial_field.
InitialState ==
    IF method = "pseudo_spectral"
    THEN rfftn(curl_2d(filtered_velocity_field(seed, sim_grid)))
    ELSE filtered_velocity_field(seed, sim_grid)

\* The state after n macro-steps from the initial state.
StateAfter(n) == Iterate(step_fn, n * inner_steps, InitialState)

\* The trajectory of a call with warmup_steps = 0 and outer_steps = n and
\* otherwise the arguments of this call: the projections of the states after
\* 1..n macro-steps.
Recorded(n) == [m \in 1..n |-> Project(StateAfter(m))]

Returned == pc = "done" /\ retKind # "none"

Projections == Range(trajs) \cup Range(ret)

(* ------------------------------- C1 ------------------------------------ *)
\* C1 as stated: a call with warmup_steps > 0 and outer_steps > 0 returns the
\* ordered list of outer_steps records of a recorded rollout that starts from
\* the warmup result.
C1_AsStated ==
    (Returned /\ warmup_steps > 0 /\ outer_steps > 0) =>
        /\ retKind = "trajs"
        /\ ret = [m \in 1..outer_steps |-> Project(StateAfter(warmup_steps + m))]

\* C1 amended: with warmup_steps > 0 the warmup rollout runs with its
\* projections discarded, the recorded rollout is never entered, and the call
\* returns the single projection of the state after warmup_steps macro-steps.
C1_WarmupReturnsFinalField ==
    warmup_steps > 0 =>
        /\ pc # "record"
        /\ trajs = << >>
        /\ Returned =>
              /\ retKind = "outs"
              /\ ret = <<Project(StateAfter(warmup_steps))>>
              /\ state = StateAfter(warmup_steps)

C1_Witness ==
    /\ Returned
    /\ warmup_steps > 0
    /\ outer_steps > 1
    /\ out_grids # << >>
    /\ Len(ret) = 1

(* ------------------------------- C2 ------------------------------------ *)
\* C2 as stated: with warmup_steps = N >= 1 and outer_steps = M >= 1 the
\* returned trajectory is the trajectory of N + M recorded steps without
\* warmup, less its first N entries.
C2_AsStated ==
    (Returned /\ warmup_steps >= 1 /\ outer_steps >= 1) =>
        ret = SubSeq(Recorded(warmup_steps + outer_steps),
                     warmup_steps + 1, warmup_steps + outer_steps)

\* C2 amended: with warmup_steps = N >= 1 and outer_steps = M >= 1 the call
\* returns one record, equal to the N-th entry of the trajectory of N + M
\* recorded steps without warmup; none of the M later entries is returned.
C2_WarmupEqualsNthRecorded ==
    (Returned /\ warmup_steps >= 1 /\ outer_steps >= 1) =>
        ret = SubSeq(Recorded(warmup_steps + outer_steps),
                     warmup_steps, warmup_steps)

C2_Witness ==
    /\ Returned
    /\ warmup_steps >= 1
    /\ outer_steps >= 1
    /\ out_grids # << >>
    /\ ret # <<Project(InitialState)>>
    /\ ret # <<Project(StateAfter(warmup_steps + 1))>>

(* ------------------------------- C3 ------------------------------------ *)
\* C3: with warmup_steps = 0 and outer_steps > 0 the call returns exactly
\* outer_steps entries, the m-th being the projection of the state after m
\* macro-steps from the initial state; while the rollout runs, one entry has
\* been recorded per macro-step completed.
C3_RecordedIsOrderedFold ==
    (warmup_steps = 0 /\ outer_steps > 0) =>
        /\ pc = "record" => Len(trajs) = i
        /\ Returned =>
              /\ retKind = "trajs"
              /\ Len(ret) = outer_steps
              /\ ret = Recorded(outer_steps)

C3_Witness ==
    /\ Returned
    /\ warmup_steps = 0
    /\ outer_steps = 2
    /\ out_grids # << >>
    /\ ret[1] # ret[2]
    /\ ret[1] # Project(InitialState)

(* ------------------------------- C4 ------------------------------------ *)
\* C4 as stated: on a 2D simulation grid every record of every projection,
\* from either algorithm, has vx and vy of shape (size, size), size being the
\* first component of its key.
C4_AsStated ==
    ndim(sim_grid) = 2 =>
        \A p \in Projections : \A key \in DOMAIN p :
            /\ p[key].vx.shape = <<key[1], key[1]>>
            /\ p[key].vy.shape = <<key[1], key[1]>>

(* ------------------------------- C5 ------------------------------------ *)
\* C5: in every record of every projection 'vorticity' is present exactly
\* when out_vorticity is true and the simulation grid is 2D, and the other
\* entries are the velocity components of the grid's axes.
C5_VorticityIffRequested2D ==
    \A p \in Projections : \A key \in DOMAIN p :
        /\ ("vorticity" \in DOMAIN p[key]) <=>
               (out_vorticity /\ ndim(sim_grid) = 2)
        /\ DOMAIN p[key] \ {"vorticity"} =
               {KEYS[n] : n \in 1..ndim(sim_grid)}

C5_Witness ==
    /\ Returned
    /\ out_vorticity
    /\ ndim(sim_grid) = 3
    /\ \E key \in DOMAIN ret[1] :
          /\ key[1] < sim_grid.shape[1]
          /\ DOMAIN ret[1][key] = {"vx", "vy", "vz"}

(* ------------------------------- C6 ------------------------------------ *)
\* C6: every projection holds one record for each distinct (size, stride)
\* pair of out_sizes and for nothing else.
C6_OneRecordPerKey ==
    LET pairs == {<<out_sizes[n].size, out_sizes[n].k>> :
                      n \in 1..Len(out_sizes)}
    IN  /\ pc # "start" => DOMAIN out_grids = pairs
        /\ \A p \in Projections : DOMAIN p = pairs

C6_Witness ==
    /\ Returned
    /\ Len(out_sizes) = 2
    /\ out_sizes[1].size = out_sizes[2].size
    /\ out_sizes[1].k # out_sizes[2].k
    /\ Cardinality(DOMAIN ret[1]) = 2

(* ------------------------------- C7 ------------------------------------ *)
\* The record under a native-size key of projection p is computed from the
\* whole of state s: staggered components unchanged and their curl, or the
\* inverse transforms of the spectrum and of its velocity solve.
NativeFromInput(p, s) ==
    \A key \in DOMAIN p :
        key[1] = sim_grid.shape[1] =>
            \A name \in DOMAIN p[key] :
                /\ p[key][name].src = s.val
                /\ IF downsample_fn = "downsample_velocity"
                   THEN /\ p[key][name].shape = s.shape
                        /\ p[key][name].ops =
                              IF name = "vorticity"
                              THEN <<"curl_2d">> ELSE << >>
                        /\ name # "vorticity" => KEYS[p[key][name].comp] = name
                   ELSE /\ p[key][name].shape = irfftn_shape(s.shape)
                        /\ p[key][name].ops =
                              IF name = "vorticity" THEN <<"irfftn">>
                              ELSE <<"velocity_solve", "irfftn">>
                        /\ name # "vorticity" => KEYS[p[key][name].comp] = name

\* C7: identity downsampling.  Each entry, when it is recorded and when it is
\* returned, and the record returned after warmup, is under every native-size
\* key the untruncated, unrestricted image of the state it projects.
C7_NativeIsIdentity ==
    /\ (pc = "record" /\ j = 0 /\ i > 0) => NativeFromInput(trajs[i], state)
    /\ (Returned /\ retKind = "outs") => NativeFromInput(ret[1], state)
    /\ (Returned /\ retKind = "trajs") =>
          \A m \in 1..Len(ret) : NativeFromInput(ret[m], StateAfter(m))

C7_Witness ==
    /\ Returned
    /\ retKind = "trajs"
    /\ downsample_fn = "downsample_vorticity"
    /\ out_vorticity
    /\ \E key \in DOMAIN ret[1] :
          /\ key[1] = sim_grid.shape[1]
          /\ ret[1][key].vorticity.ops = <<"irfftn">>

(* ------------------------------- C8 ------------------------------------ *)
\* The modes the specification calls recognized: the spectral one and one
\* staggered-velocity mode.
RecognizedMethods == {"pseudo_spectral", "projection"}

\* C8 as stated: with a method that is not recognized the call fails with
\* UnsupportedMethodError before an initial state is built or a step is run.
C8_AsStated ==
    method \notin RecognizedMethods =>
        /\ state = NoState
        /\ pc # "done"
        /\ raised \in {"", "UnsupportedMethodError"}

\* C8 amended: method is not validated.  UnsupportedMethodError is never
\* raised, and every method other than pseudo_spectral, recognized or not,
\* takes the staggered velocity v0 as initial state and is stepped from it.
C8_MethodNotValidated ==
    /\ raised # "UnsupportedMethodError"
    /\ (method # "pseudo_spectral" /\ ~initial_field.given) =>
          /\ pc = "branch" => state = filtered_velocity_field(seed, sim_grid)
          /\ pc \in {"warmup", "record", "done"} =>
                /\ state.rep = "velocity"
                /\ state.shape = sim_grid.shape
          /\ Returned =>
                state = StateAfter(IF retKind = "outs" THEN warmup_steps
                                   ELSE outer_steps)

C8_Witness ==
    /\ method \notin RecognizedMethods
    /\ Returned
    /\ retKind = "trajs"
    /\ Len(ret) = outer_steps
    /\ state = StateAfter(outer_steps)
    /\ state # InitialState

(* ------------------------------- C9 ------------------------------------ *)
\* C9 as stated: a supplied initial field with as many velocity arrays as
\* the grid has axes becomes the initial velocity state and generation goes
\* on from it; any other count fails with DimensionMismatchError.
C9_AsStated ==
    (initial_field.given /\ pc \notin {"start", "initial"}) =>
        IF initial_field.n = ndim(sim_grid)
        THEN state # NoState /\ raised = ""
        ELSE pc = "raised" /\ raised = "DimensionMismatchError"

(* ------------------------------- C10 ----------------------------------- *)
\* C10 as stated: a grid that is not 2D is rejected when it is made, so no
\* initial state is built, no step run and no projection made for it.
C10_AsStated ==
    ndim(sim_grid) # 2 =>
        /\ state = NoState
        /\ Projections = {}

\* C10 amended: a grid that is not 2D is not rejected.  velocity_solve is
\* None for it and InvalidGridError is never raised; with pseudo_spectral the
\* random initial condition fails in curl_2d, with any other method the
\* velocity state is built on the grid and stepped, and every returned record
\* holds one velocity component per axis and no vorticity.
C10_Non2DGridAccepted ==
    ndim(sim_grid) # 2 =>
        /\ raised # "InvalidGridError"
        /\ pc # "start" => ~velocity_solve
        /\ (~initial_field.given /\ pc \notin {"start", "initial"}) =>
              IF method = "pseudo_spectral"
              THEN pc = "raised" /\ raised = "ValueError"
              ELSE state.rep = "velocity" /\ state.shape = sim_grid.shape
        /\ Returned =>
              /\ downsample_fn = "downsample_velocity"
              /\ \A p \in Range(ret) : \A key \in DOMAIN p :
                    DOMAIN p[key] = {KEYS[n] : n \in 1..ndim(sim_grid)}

C10_Witness ==
    /\ ndim(sim_grid) = 3
    /\ Returned
    /\ retKind = "trajs"
    /\ Len(ret) = 2
    /\ \E key \in DOMAIN ret[2] : DOMAIN ret[2][key] = {"vx", "vy", "vz"}

(* ------------------------------- C11 ----------------------------------- *)
\* C11: a call that reaches line 393 with warmup_steps = 0 and
\* outer_steps = 0 enters neither rollout: no step is applied, nothing is
\* projected, nothing is raised, and the function ends without a return
\* value; it ends that way for no other arguments.
C11_BothZeroReturnsNothing ==
    /\ pc \in {"warmup", "record"} => (warmup_steps > 0 \/ outer_steps > 0)
    /\ (pc = "raised" /\ state # NoState) =>
          (warmup_steps > 0 \/ outer_steps > 0)
    /\ (pc = "done" /\ warmup_steps = 0 /\ outer_steps = 0) =>
          /\ retKind = "none"
          /\ ret = << >>
          /\ trajs = << >>
          /\ raised = ""
          /\ nsteps = 0
          /\ state = InitialState
    /\ retKind = "none" => (warmup_steps = 0 /\ outer_steps = 0)

C11_Witness ==
    /\ pc = "done"
    /\ retKind = "none"
    /\ warmup_steps = 0
    /\ outer_steps = 0
    /\ state = InitialState
    /\ state.rep = "spectral"

(* ------------------------------- C12 ----------------------------------- *)
\* The downsampler is due: the next step of the rollout hands the state to
\* downsample (line 399 after the warmup, line 405 after each macro-step).
ProjectionDue ==
    \/ pc = "warmup" /\ i = Steps
    \/ pc = "record" /\ i < Steps /\ j = inner_steps

\* The supplied downsampler is the one written for the state's
\* representation.
RepMatches ==
    \/ downsample_fn = "downsample_vorticity" /\ state.rep = "spectral"
    \/ downsample_fn = "downsample_velocity" /\ state.rep = "velocity"

\* C12 as stated: whenever the downsampler is due, it is the one matching
\* the state's representation.
C12_AsStated == ProjectionDue => RepMatches

\* C12 (amended): the representation of the state is fixed by method alone
\* (spectral iff method = 'pseudo_spectral'), the downsampler is the
\* argument downsample_fn whatever the method, and the two are paired only
\* by the caller: every combination of representation and downsampler
\* reaches the projection, and a record is produced only from a matching
\* pair.
C12_DownsamplerIsCallerChosen ==
    /\ state # NoState =>
          state.rep = IF method = "pseudo_spectral" THEN "spectral"
                      ELSE "velocity"
    /\ state # NoState => downsample_fn \in DownsampleFns
    /\ Projections # {} => RepMatches
    /\ (pc = "raised" /\ state # NoState) =>
          (~RepMatches \/ ~velocity_solve)

C12_Witness ==
    /\ pc = "raised"
    /\ raised = "TypeError"
    /\ state.rep = "spectral"
    /\ method = "pseudo_spectral"
    /\ downsample_fn = "downsample_velocity"
    /\ nsteps > 0

(* ------------------------------- C13 ----------------------------------- *)
\* Number of macro-steps of the rollout that ended in a return.
MacroStepsRun == IF retKind = "outs" THEN warmup_steps ELSE outer_steps

\* The count of step applications: inner_steps per completed macro-step
\* plus the position inside the running one.
StepCount ==
    /\ pc \in {"warmup", "record"} =>
          /\ j <= inner_steps
          /\ nsteps = i * inner_steps + j
    /\ pc = "record" => Len(trajs) = i
    /\ Returned => nsteps = inner_steps * MacroStepsRun

\* A step that takes a projection (a record appended to the trajectory, or
\* the single record after the warmup) applies no step, and is taken after
\* a whole number of macro-steps.
ProjectionBetweenMacroSteps ==
    (trajs' # trajs \/ (retKind' = "outs" /\ retKind # "outs")) =>
        /\ nsteps' = nsteps
        /\ state' = state
        /\ inner_steps > 0
        /\ nsteps % inner_steps = 0
        /\ nsteps = inner_steps * (IF pc = "record" THEN Len(trajs) + 1
                                   ELSE warmup_steps)

\* C13: step_fn is applied exactly inner_steps times per macro-step, so a
\* returning call has applied it inner_steps * (macro-steps run) times, and
\* every projection is taken after a whole multiple of inner_steps
\* applications, never inside a macro-step.
C13_MacroStepIsAtomic ==
    [] StepCount /\ [][ProjectionBetweenMacroSteps]_vars

C13_Witness ==
    /\ Returned
    /\ retKind = "trajs"
    /\ inner_steps = 2
    /\ outer_steps = 2
    /\ nsteps = 4
    /\ Len(ret) = 2

(* ------------------------------- C14 ----------------------------------- *)
\* Number of entries of a list of projections that hold a record under key.
EntriesUnder(projs, key) ==
    Cardinality({m \in 1..Len(projs) : key \in DOMAIN projs[m]})

\* C14: the stride of a key does not thin its stream.  Every recorded step
\* gives every requested (size, k) key a record, so after i recorded steps
\* each key has i entries and a returned trajectory has outer_steps entries
\* under each key; two keys of one size and different strides receive the
\* same records.
C14_StrideKeepsCadence ==
    /\ pc = "record" =>
          \A key \in DOMAIN out_grids : EntriesUnder(trajs, key) = i
    /\ (Returned /\ retKind = "trajs") =>
          \A key \in DOMAIN out_grids :
              EntriesUnder(ret, key) = outer_steps
    /\ \A p \in Projections :
          \A k1, k2 \in DOMAIN p : k1[1] = k2[1] => p[k1] = p[k2]

C14_Witness ==
    /\ Returned
    /\ retKind = "trajs"
    /\ outer_steps = 2
    /\ \E k1, k2 \in DOMAIN out_grids :
          /\ k1[1] = k2[1]
          /\ k1[2] = 1
          /\ k2[2] = 2
          /\ EntriesUnder(ret, k1) = 2
          /\ EntriesUnder(ret, k2) = 2

(* ===================== commands/generate.py ============================ *)
\* generate_kolmogorov has not been called.
GenIdle ==
    /\ sim_grid = Grid(<<2, 2>>)
    /\ out_sizes = << >>
    /\ method = "pseudo_spectral"
    /\ step_fn = "unread"
    /\ downsample_fn = "downsample_vorticity"
    /\ seed = 0
    /\ initial_field = NoField
    /\ inner_steps = 0
    /\ outer_steps = 0
    /\ warmup_steps = 0
    /\ out_vorticity = FALSE
    /\ velocity_solve = FALSE
    /\ out_grids = << >>
    /\ state = NoState
    /\ pc = "idle"
    /\ i = 0
    /\ j = 0
    /\ trajs = << >>
    /\ ret = << >>
    /\ retKind = "pending"
    /\ raised = ""
    /\ nsteps = 0

genVars == <<nsteps, args, stepArgs, rolloutArgs, velocity_solve, out_grids,
             state, pc, i, j, trajs, ret, retKind, raised>>

\* class Force (lines 17-19).
Forces == {"li", "random"}

min(x, y) == IF x <= y THEN x ELSE y

\* The rows c, ..., c + b - 1 addressed by the slice c:(c+b).
Slice(c, b) == {r \in Rows : c <= r /\ r < c + b}

\* One more assignment to each row of rows.
Assign(data, rows) ==
    [r \in Rows |-> IF r \in rows THEN data[r] + 1 ELSE data[r]]

\* The command line: n, b and force (lines 47-63).
InitNS ==
    /\ GenIdle
    /\ DsIdle
    /\ MtIdle
    /\ ns_pc = "start"
    /\ ns_n \in 1..MaxN
    /\ ns_b \in 1..MaxB
    /\ ns_force \in Forces
    /\ ns_c = 0
    /\ ns_j = 0
    /\ ns_a = [r \in Rows |-> 0]
    /\ ns_u = [r \in Rows |-> 0]
    /\ ns_f = [r \in Rows |-> 0]
    /\ ns_mu = [r \in Rows |-> 0]

\* Lines 87-94: c = 0, the four datasets of n rows are created, and
\* b = min(n, b).
NsCreate ==
    /\ ns_pc = "start"
    /\ ns_c' = 0
    /\ ns_b' = min(ns_n, ns_b)
    /\ ns_j' = 0
    /\ ns_pc' = "loop"
    /\ UNCHANGED <<genVars, dsVars, mtVars, ns_n, ns_force, ns_a, ns_u, ns_f,
                   ns_mu>>

\* Lines 96-116: one pass of the body of for j in range(n // b): the batch
\* is solved and assigned to rows c:(c+b) of 'a', 'u' and 'mu', and of 'f'
\* under random forcing; then c += b.
NsBatch ==
    /\ ns_pc = "loop"
    /\ ns_j < ns_n \div ns_b
    /\ ns_a' = Assign(ns_a, Slice(ns_c, ns_b))
    /\ ns_u' = Assign(ns_u, Slice(ns_c, ns_b))
    /\ ns_f' = IF ns_force = "random" THEN Assign(ns_f, Slice(ns_c, ns_b))
               ELSE ns_f
    /\ ns_mu' = Assign(ns_mu, Slice(ns_c, ns_b))
    /\ ns_c' = ns_c + ns_b
    /\ ns_j' = ns_j + 1
    /\ UNCHANGED <<genVars, dsVars, mtVars, ns_pc, ns_n, ns_b, ns_force>>

\* Line 96: range(n // b) is exhausted.
NsExit ==
    /\ ns_pc = "loop"
    /\ ns_j = ns_n \div ns_b
    /\ ns_pc' = "done"
    /\ UNCHANGED <<genVars, dsVars, mtVars, ns_n, ns_b, ns_force, ns_c, ns_j,
                   ns_a, ns_u, ns_f, ns_mu>>

NextNS ==
    \/ NsCreate
    \/ NsBatch
    \/ NsExit

SpecNS == InitNS /\ [][NextNS]_vars

(* ------------------------------- C15 ----------------------------------- *)
\* C15 as stated: when the batch loop of navier_stokes has finished, every
\* row 0..n-1 of 'a', 'u' and 'mu' has been assigned exactly once and no
\* row >= n has been assigned.
C15_AsStated ==
    ns_pc = "done" =>
        \A r \in Rows :
            IF r < ns_n
            THEN ns_a[r] = 1 /\ ns_u[r] = 1 /\ ns_mu[r] = 1
            ELSE ns_a[r] = 0 /\ ns_u[r] = 0 /\ ns_mu[r] = 0

(* ============ builders/kolmogorov.py: the Dataset classes ============== *)
DatasetKinds == {"torch", "jax"}

\* The positions range(start, min(stop, n), step) that a slice with
\* 0 <= start and 0 < step selects on an axis of length n.
SliceIndices(n, start, stop, stride) ==
    LET lim == min(stop, n)
        count == IF lim > start THEN (lim - start + stride - 1) \div stride
                 ELSE 0
    IN  [m \in 1..count |-> start + (m - 1) * stride]

\* isel(time=slice(start, stop, step)) on an axis whose entries are axis.
isel(axis, start, stop, stride) ==
    LET pos == SliceIndices(Len(axis), start, stop, stride)
    IN  [m \in 1..Len(pos) |-> axis[pos[m] + 1]]

\* The time axis of the stored dataset, by position.
TimeAxis(n) == [m \in 1..n |-> m - 1]

\* A stored dataset and the constructor arguments k and unroll_length.
InitDS ==
    /\ GenIdle
    /\ NsIdle
    /\ MtIdle
    /\ ds_pc = "new"
    /\ ds_kind \in DatasetKinds
    /\ ds_len \in 1..MaxTime
    /\ ds_B \in 1..MaxSamples
    /\ ds_k \in 1..MaxK
    /\ ds_L \in IF ds_kind = "jax" THEN 1..MaxL ELSE {0}
    /\ ds_T = 0
    /\ ds_call = NoCall
    /\ ds_prev = NoCall

\* Variant of JAXInit: T counts one start too many.
JAXInitLong ==
    /\ ds_pc = "new"
    /\ ds_kind = "jax"
    /\ ds_T' = ds_len - ds_k * ds_L + 1
    /\ ds_pc' = "ready"
    /\ UNCHANGED <<genVars, nsVars, mtVars, ds_kind, ds_len, ds_B, ds_k, ds_L,
                   ds_call, ds_prev>>

\* KolmogorovJAXDataset.__init__ (lines 75-80):
\* T = len(ds.time) - k * L.
JAXInit ==
    /\ ds_pc = "new"
    /\ ds_kind = "jax"
    /\ ds_T' = ds_len - ds_k * ds_L
    /\ ds_pc' = "ready"
    /\ UNCHANGED <<genVars, nsVars, mtVars, ds_kind, ds_len, ds_B, ds_k, ds_L,
                   ds_call, ds_prev>>

\* KolmogorovTorchDataset.__init__ (lines 115-119): T = len(ds.time) - k.
TorchInit ==
    /\ ds_pc = "new"
    /\ ds_kind = "torch"
    /\ ds_T' = ds_len - ds_k
    /\ ds_pc' = "ready"
    /\ UNCHANGED <<genVars, nsVars, mtVars, ds_kind, ds_len, ds_B, ds_k, ds_L,
                   ds_call, ds_prev>>

\* __len__ (lines 86-87, 125-126).
DatasetLen == ds_B * ds_T

\* KolmogorovJAXDataset.__getitem__ (lines 89-111) for an index of the
\* dataset: the window slice(t, t+L*k+1, k), its first entry as inputs and
\* the rest as outputs.  isel(time=0) needs a window that is not empty.
JAXGetItem ==
    /\ ds_pc = "ready"
    /\ ds_kind = "jax"
    /\ \E idx \in 0..(DatasetLen - 1) :
          LET b == idx \div ds_T
              t == idx % ds_T
              ds == isel(TimeAxis(ds_len), t, t + ds_L * ds_k + 1, ds_k)
          IN  /\ Len(ds) > 0
              /\ ds_call' = [idx |-> idx, b |-> b, t |-> t,
                             ins |-> <<ds[1]>>,
                             outs |-> isel(ds, 1, Len(ds), 1)]
    /\ ds_prev' = ds_call
    /\ UNCHANGED <<genVars, nsVars, mtVars, ds_pc, ds_kind, ds_len, ds_B,
                   ds_k, ds_L, ds_T>>

\* KolmogorovTorchDataset.__getitem__ (lines 128-142) for an index of the
\* dataset: the window slice(t, t+k+1, k), its slice(0, 1) as inputs and its
\* slice(1, 2) as outputs.
TorchGetItem ==
    /\ ds_pc = "ready"
    /\ ds_kind = "torch"
    /\ \E idx \in 0..(DatasetLen - 1) :
          LET b == idx \div ds_T
              t == idx % ds_T
              ds == isel(TimeAxis(ds_len), t, t + ds_k + 1, ds_k)
          IN  ds_call' = [idx |-> idx, b |-> b, t |-> t,
                          ins |-> isel(ds, 0, 1, 1),
                          outs |-> isel(ds, 1, 2, 1)]
    /\ ds_prev' = ds_call
    /\ UNCHANGED <<genVars, nsVars, mtVars, ds_pc, ds_kind, ds_len, ds_B,
                   ds_k, ds_L, ds_T>>

NextDS ==
    \/ JAXInit
    \/ TorchInit
    \/ JAXGetItem
    \/ TorchGetItem

SpecDS == InitDS /\ [][NextDS]_vars

(* ------------------------------- C16 ----------------------------------- *)
\* The time indices first, first + k, ..., first + (count - 1) * k.
Strided(first, count, k) == [m \in 1..count |-> first + (m - 1) * k]

\* C16: for every index of a KolmogorovTorchDataset or KolmogorovJAXDataset
\* the decoded sample b is below B and the window lies inside the time
\* axis: the torch class reads exactly t and t + k, the JAX class exactly
\* t, t + k, ..., t + L*k, the last of them at most len(time) - 1; and two
\* different indices decode to different pairs (b, t).
C16_WindowsInBounds ==
    /\ ds_call # NoCall =>
          /\ ds_call.b \in 0..(ds_B - 1)
          /\ ds_call.t \in 0..(ds_T - 1)
          /\ ds_call.idx = ds_call.b * ds_T + ds_call.t
          /\ ds_call.ins = <<ds_call.t>>
          /\ ds_kind = "torch" =>
                /\ ds_call.outs = <<ds_call.t + ds_k>>
                /\ ds_call.t + ds_k <= ds_len - 1
          /\ ds_kind = "jax" =>
                /\ ds_call.outs = Strided(ds_call.t + ds_k, ds_L, ds_k)
                /\ Len(ds_call.ins) + Len(ds_call.outs) = ds_L + 1
                /\ ds_call.t + ds_L * ds_k <= ds_len - 1
    /\ (ds_prev # NoCall /\ ds_prev.idx # ds_call.idx) =>
          <<ds_prev.b, ds_prev.t>> # <<ds_call.b, ds_call.t>>

C16_Witness ==
    /\ ds_kind = "jax"
    /\ ds_L = 2
    /\ ds_k = 2
    /\ ds_B = 2
    /\ ds_call.b = 1
    /\ ds_call.t = ds_T - 1
    /\ ds_call.outs = <<ds_call.t + 2, ds_len - 1>>
    /\ ds_prev # NoCall
    /\ ds_prev.idx # ds_call.idx
    /\ ds_prev.t = ds_call.t

(* ======= builders/kolmogorov.py: KolmogorovMultiTorchDataset =========== *)
\* The datasets behind paths, the time axis of the first, and the
\* constructor arguments k and batch_size.
InitMulti ==
    /\ GenIdle
    /\ NsIdle
    /\ DsIdle
    /\ mt_pc = "new"
    /\ mt_dss \in 1..MaxDss
    /\ mt_len \in 1..MaxTime
    /\ mt_B \in 1..MaxSamples
    /\ mt_k \in 1..MaxK
    /\ batch_size \in 1..MaxBatch
    /\ mt_T = 0
    /\ counter = 0
    /\ ds_index = 0
    /\ mt_last = NoRead
    /\ mt_reads = << >>

\* __init__ (lines 146-153): T = len(dss[0].time) - k, counter = 0,
\* ds_index = 0.
MultiInit ==
    /\ mt_pc = "new"
    /\ mt_T' = mt_len - mt_k
    /\ counter' = 0
    /\ ds_index' = 0
    /\ mt_pc' = "ready"
    /\ UNCHANGED <<genVars, nsVars, dsVars, mt_dss, mt_len, mt_B, mt_k,
                   batch_size, mt_last, mt_reads>>

\* Variant of update_counter: the test of the counter comes before the
\* increment.
update_counterTestFirst(c, x, size, n) ==
    [counter |-> c + 1,
     ds_index |-> IF c % size = 0 THEN (x + 1) % n ELSE x]

\* update_counter (lines 174-177): counter += 1, and ds_index moves to the
\* next dataset when the new counter is a multiple of batch_size.
update_counter(c, x, size, n) ==
    [counter |-> c + 1,
     ds_index |-> IF (c + 1) % size = 0 THEN (x + 1) % n ELSE x]

\* __getitem__ (lines 158-172) for an index of the dataset: the sample is
\* read from dss[ds_index], then update_counter runs.
MultiGetItem ==
    /\ mt_pc = "ready"
    /\ counter < MaxCalls
    /\ \E idx \in 0..(mt_B * mt_T - 1) :
          mt_last' = [idx |-> idx, b |-> idx \div mt_T, t |-> idx % mt_T,
                      ds |-> ds_index]
    /\ mt_reads' = Append(mt_reads, ds_index)
    /\ LET after == update_counter(counter, ds_index, batch_size, mt_dss)
       IN  /\ counter' = after.counter
           /\ ds_index' = after.ds_index
    /\ UNCHANGED <<genVars, nsVars, dsVars, mt_pc, mt_dss, mt_len, mt_B, mt_k,
                   mt_T, batch_size>>

NextMulti ==
    \/ MultiInit
    \/ MultiGetItem

SpecMulti == InitMulti /\ [][NextMulti]_vars

(* ------------------------------- C17 ----------------------------------- *)
\* C17: after any sequence of __getitem__ calls of a
\* KolmogorovMultiTorchDataset, ds_index is an index of dss and equals
\* floor(counter / batch_size) mod len(dss); the c-th call read dataset
\* floor((c - 1) / batch_size) mod len(dss), so the batch_size calls of a
\* run starting at a multiple of batch_size read one dataset and the next
\* run reads its round-robin successor.
C17_RoundRobinPerBatch ==
    mt_pc = "ready" =>
        /\ ds_index \in 0..(mt_dss - 1)
        /\ ds_index = (counter \div batch_size) % mt_dss
        /\ Len(mt_reads) = counter
        /\ \A c \in 1..Len(mt_reads) :
              mt_reads[c] = ((c - 1) \div batch_size) % mt_dss
        /\ \A r \in 0..MaxCalls :
              (r + 2) * batch_size <= Len(mt_reads) =>
                  /\ \A c \in 1..batch_size :
                        mt_reads[r * batch_size + c] =
                            mt_reads[r * batch_size + 1]
                  /\ mt_reads[(r + 1) * batch_size + 1] =
                        (mt_reads[r * batch_size + 1] + 1) % mt_dss

C17_Witness ==
    /\ mt_pc = "ready"
    /\ batch_size = 2
    /\ mt_dss = 2
    /\ counter = 6
    /\ ds_index = 1
    /\ mt_reads = <<0, 0, 1, 1, 0, 0>>
    /\ mt_last.ds = 0

====
